---- MODULE Spec2Model ----
(***************************************************************************)
(* secure-judger: one judge session (JudgeSession::run_judge), the         *)
(* sandbox launcher (secrun::sandbox_run) and the output comparator        *)
(* (compare_content), as a state machine of the parent (supervisor), the   *)
(* forked child and a discrete monotonic clock.                            *)
(***************************************************************************)
EXTENDS Integers, Sequences, FiniteSets, TLC

VARIABLES
    pc,                 \* parent's position in run_judge / sandbox_run
    child,              \* forked child's position / process state
    now,                \* the monotonic clock (Instant::now())
    begin_instant,      \* secrun.rs:126  inst
    stop_instant,       \* judger.rs:171
    return_value,       \* judger.rs:159  raw wait status written by wait4
    res_used,           \* judger.rs:172  ru_maxrss of the reaped child (KiB)
    res_utime,          \* judger.rs:172  ru_utime of the reaped child
    max_allowed_time,   \* JudgeSession.max_allowed_time
    max_allowed_memory_bytes, \* JudgeSession.max_allowed_memory_bytes
    std_ans,            \* content of standard_ans_file
    tmp_out_exists,     \* whether /tmp/<input>.out exists
    tmp_out_dir,        \* whether the entry at /tmp/<input>.out is a directory: "no" | "empty" | "nonempty"
    tmp_out,            \* content of /tmp/<input>.out
    ret,                \* "pending" | "Ok" | "Err": what run_judge returned
    error,              \* the error run_judge returned with ("none" when it did not)
    result,             \* the JudgeResult (meaningful when ret = "Ok")
    child_status,       \* kernel: raw status of the terminated child
    child_maxrss,       \* kernel: peak RSS of the child (KiB)
    child_utime,        \* kernel: user CPU time of the child (tv_sec, tv_usec)
    sig_pending,        \* kernel: a SIGKILL sent to the child, not yet delivered
    kill_sent,          \* the supervisor called kill(pid, SIGKILL) at least once
    kill_called,        \* the current iteration of the wait loop called kill(pid, SIGKILL)
    seccomp_installed,  \* child: the filter is active
    fd1,                \* child: what descriptor 1 refers to
    fd0,                \* child: what descriptor 0 refers to
    out_open_denied,    \* child: the open of the output path failed with EPERM
    subject_loops,      \* the subject never terminates on its own
    subject_ran,        \* execv succeeded: the subject's image has run
    sys_call,           \* kernel: the subject's last system call and the filter's action on it
    launcher_exec,      \* kernel: the filter's action on the launcher's execve
    fork_at,            \* clock value at fork
    exit_at,            \* clock value when the child terminated
    death,              \* how the child terminated (exit code / signal)
    comparator_ran,     \* compare_content was called
    content1,           \* compare_content: first stream (read results)
    content2            \* compare_content: second stream (read results)

vars == <<pc, child, now, begin_instant, stop_instant, return_value, res_used,
          max_allowed_time, max_allowed_memory_bytes, std_ans, tmp_out_exists,
          tmp_out, ret, result, child_status, child_maxrss, sig_pending,
          kill_sent, seccomp_installed, fd1, fd0, out_open_denied,
          subject_loops, tmp_out_dir, res_utime, child_utime, kill_called, error, subject_ran, sys_call, launcher_exec, fork_at, exit_at,
          death, comparator_ran, content1, content2>>

(***************************************************************************)
(* Bounds of the model.                                                    *)
(***************************************************************************)
MaxTime == 3
MaxOut == 1
MaxLen == 3

(***************************************************************************)
(* Program and platform constants.                                         *)
(***************************************************************************)
DurationMAX == 1000000
SIGFPE == 8
SIGKILL == 9
SIGSEGV == 11
SIGTERM == 15
PanicExitCode == 101
O_WRONLY == 1
O_RDWR == 2
O_RDONLY == 0

\* A failed read, as an item of a Bytes iterator (Some(Err(e))).
ReadErr == -1

(***************************************************************************)
(* Wait-status encoding and decoding (libc, Linux).                        *)
(***************************************************************************)
ExitStatus(code) == (code % 256) * 256
SignalStatus(sig, core) == sig + (IF core THEN 128 ELSE 0)

\* ((status & 0x7f) + 1) as i8 >= 2
AsI8(x) == IF x % 256 >= 128 THEN (x % 256) - 256 ELSE x % 256
WIFSIGNALED(status) == AsI8((status % 128) + 1) >= 2
WTERMSIG(status) == status % 128
WIFEXITED(status) == status % 128 = 0
WEXITSTATUS(status) == (status \div 256) % 256

(***************************************************************************)
(* Verdicts (JudgeStatus).                                                 *)
(***************************************************************************)
Plain(t) == [tag |-> t, kind |-> "", raw |-> 0]
Accepted == Plain("Accepted")
WrongAnswer == Plain("WrongAnswer")
TimeLimitExceeded == Plain("TimeLimitExceeded")
MemoryLimitExceeded == Plain("MemoryLimitExceeded")
PresentationError == Plain("PresentationError")
RuntimeError(k) == [tag |-> "RuntimeError", kind |-> k, raw |-> 0]
ReturnNonZero(r) == [tag |-> "ReturnNonZero", kind |-> "", raw |-> r]
\* not a verdict: the classifier's fourth rule, "run the comparator"
RunComparator == Plain("RunComparator")
NoStatus == Plain("none")

(***************************************************************************)
(* compare_content (judger.rs:215-241).                                    *)
(***************************************************************************)
\* Result<u8>::unwrap_or_default: a failed read becomes the byte 0
UnwrapOrDefault(ch) == IF ch = ReadErr THEN 0 ELSE ch

\* u8::is_ascii_whitespace: SPACE, TAB, LF, FF, CR
IsAsciiWhitespace_NoSpace(ch) == ch \in {9, 10, 12, 13}
IsAsciiWhitespace(ch) == ch \in {32, 9, 10, 12, 13}

\* u8::to_ascii_uppercase
ToAsciiUppercase(ch) == IF ch >= 97 /\ ch <= 122 THEN ch - 32 ELSE ch

\* bytes().map(|ch| ch.unwrap_or_default())
RECURSIVE Bytes(_)
Bytes(c) ==
    IF c = <<>> THEN <<>> ELSE <<UnwrapOrDefault(Head(c))>> \o Bytes(Tail(c))

\* .filter(|ch| !ch.is_ascii_whitespace())
RECURSIVE FilterNotWhitespace(_)
FilterNotWhitespace(s) ==
    IF s = <<>> THEN <<>>
    ELSE IF ~IsAsciiWhitespace(Head(s)) THEN <<Head(s)>> \o FilterNotWhitespace(Tail(s))
    ELSE FilterNotWhitespace(Tail(s))

\* .map(|ch| ch.to_ascii_uppercase())
RECURSIVE MapUppercase(_)
MapUppercase(s) ==
    IF s = <<>> THEN <<>> ELSE <<ToAsciiUppercase(Head(s))>> \o MapUppercase(Tail(s))

\* Iterator::eq: element by element; both must end at the same point
RECURSIVE IterEq_Prefix(_, _)
IterEq_Prefix(a, b) ==
    IF a = <<>> THEN TRUE
    ELSE IF b = <<>> THEN FALSE
    ELSE IF Head(a) # Head(b) THEN FALSE
    ELSE IterEq_Prefix(Tail(a), Tail(b))
RECURSIVE IterEq(_, _)
IterEq(a, b) ==
    IF a = <<>> THEN b = <<>>
    ELSE IF b = <<>> THEN FALSE
    ELSE IF Head(a) # Head(b) THEN FALSE
    ELSE IterEq(Tail(a), Tail(b))

\* judger.rs:227-234: processed_content1, processed_content2
Processed(c) == MapUppercase(FilterNotWhitespace(Bytes(c)))

compare_content_NoSecondPass(c1, c2) ==
    IF IterEq(Bytes(c1), Bytes(c2))
    THEN Accepted
    ELSE WrongAnswer
compare_content(c1, c2) ==
    IF IterEq(Bytes(c1), Bytes(c2))
    THEN Accepted
    ELSE IF IterEq(Processed(c1), Processed(c2))
         THEN PresentationError
         ELSE WrongAnswer


(***************************************************************************)
(* The verdict classifier of run_judge (judger.rs:189-209).                *)
(***************************************************************************)
\* judger.rs:194-202: the raw status is non-zero
NonZeroVerdict_Decoded(rv) ==
    IF WIFSIGNALED(rv)
    THEN CASE WTERMSIG(rv) = SIGFPE -> RuntimeError("FloatingPointError")
           [] WTERMSIG(rv) = SIGSEGV -> RuntimeError("SegmentationFault")
           [] OTHER -> ReturnNonZero(WTERMSIG(rv))
    ELSE ReturnNonZero(WEXITSTATUS(rv))
NonZeroVerdict(rv) ==
    IF WIFSIGNALED(rv)
    THEN CASE WTERMSIG(rv) = SIGFPE -> RuntimeError("FloatingPointError")
           [] WTERMSIG(rv) = SIGSEGV -> RuntimeError("SegmentationFault")
           [] OTHER -> ReturnNonZero(rv)
    ELSE ReturnNonZero(rv)

\* judger.rs:189-203: memory, then time, then status, then the comparator
Classify_TimeFirst(memory_used_bytes, duration, rv, mem_limit, time_limit) ==
    IF duration > time_limit THEN TimeLimitExceeded
    ELSE IF memory_used_bytes > mem_limit THEN MemoryLimitExceeded
    ELSE IF rv # 0 THEN NonZeroVerdict(rv)
    ELSE RunComparator
Classify_StatusFirst(memory_used_bytes, duration, rv, mem_limit, time_limit) ==
    IF memory_used_bytes > mem_limit THEN MemoryLimitExceeded
    ELSE IF rv # 0 THEN NonZeroVerdict(rv)
    ELSE IF duration > time_limit THEN TimeLimitExceeded
    ELSE RunComparator
Classify(memory_used_bytes, duration, rv, mem_limit, time_limit) ==
    IF memory_used_bytes > mem_limit THEN MemoryLimitExceeded
    ELSE IF duration > time_limit THEN TimeLimitExceeded
    ELSE IF rv # 0 THEN NonZeroVerdict(rv)
    ELSE RunComparator

\* judger.rs:207: fs::remove_file(&tmp_out) on the comparison path only
TmpOutAfterClassify_Keep(verdict, exists) == exists
TmpOutAfterClassify(verdict, exists) ==
    IF verdict = RunComparator THEN FALSE ELSE exists

\* Instant::saturating_duration_since
SaturatingDurationSince(later, earlier) ==
    IF later >= earlier THEN later - earlier ELSE 0

\* judger.rs:168: wait4(pid, .., WNOHANG, ..) returned pid: the child had
\* terminated and is reaped by this call
Wait4Reaps_Any(c) == c # "none"
Wait4Reaps(c) == c = "zombie"

\* judger.rs:176: the deadline test of the wait loop
DeadlinePassed_Never(duration, time_limit) == FALSE
DeadlinePassed_AtLeast(duration, time_limit) ==
    time_limit # DurationMAX /\ duration >= time_limit
DeadlinePassed(duration, time_limit) ==
    time_limit # DurationMAX /\ duration > time_limit

(***************************************************************************)
(* The seccomp policy on open, as far as the launcher itself meets it      *)
(* (secrun.rs:13-30), and the child's steps (secrun.rs:128-142).           *)
(***************************************************************************)
RECURSIVE BitAnd(_, _)
BitAnd(a, b) ==
    IF a = 0 \/ b = 0 THEN 0
    ELSE (a % 2) * (b % 2) + 2 * BitAnd(a \div 2, b \div 2)

\* SeccompCmpOp::MaskedEq(mask) against val
MaskedEq(arg, mask, val) == BitAnd(arg, mask) = val

\* the two rules on SYS_open: either matching means Errno(EPERM)
OpenDenied(installed, flags) ==
    installed /\ (MaskedEq(flags, O_RDWR, O_RDWR) \/ MaskedEq(flags, O_WRONLY, O_WRONLY))

(***************************************************************************)
(* The seccomp policy of install_seccomp.  A system-call argument is a     *)
(* 64-bit register, kept as its two 32-bit halves.                         *)
(***************************************************************************)
Qword(h, l) == [hi |-> h, lo |-> l]

\* the address of the buffer of the CString full_name_c in the address
\* space that fork copies
full_name_c == Qword(1, 64)
\* the argument of install_seccomp
execve_whitepath == full_name_c
\* the first argument libc::execv passes to the kernel
ExecvPath_Copy == Qword(1, 66)
ExecvPath == full_name_c

\* SeccompCondition::new(arg_index, arg_len, op, val)
Cond(i, len, o, m, v) == [arg_index |-> i, arg_len |-> len, op |-> o, mask |-> m, val |-> v]

\* one condition against the arguments of a call; a Dword condition reads
\* the low half only
CondHolds(c, args) ==
    LET arg == args[c.arg_index + 1]
    IN  CASE c.op = "MaskedEq" /\ c.arg_len = "Dword" -> MaskedEq(arg.lo, c.mask, c.val.lo)
          [] c.op = "Ne" /\ c.arg_len = "Qword" -> arg # c.val

\* the system calls the policy names
PolicySyscalls ==
    {"open", "openat", "execve", "execveat", "socket", "fork", "vfork", "prctl",
     "ioctl", "clone", "mkdir", "rmdir", "creat", "chroot"}

\* the rules of one named system call: a set of rules, each a set of
\* conditions; no rule at all stands for vec![]
PolicyRules_OpenatArg1(nr, whitepath) ==
    CASE nr = "open" ->
           {{Cond(1, "Dword", "MaskedEq", O_RDWR, Qword(0, O_RDWR))},
            {Cond(1, "Dword", "MaskedEq", O_WRONLY, Qword(0, O_WRONLY))}}
      [] nr = "openat" ->
           {{Cond(1, "Dword", "MaskedEq", O_RDWR, Qword(0, O_RDWR))},
            {Cond(1, "Dword", "MaskedEq", O_WRONLY, Qword(0, O_WRONLY))}}
      [] nr = "execve" -> {{Cond(0, "Qword", "Ne", 0, whitepath)}}
      [] OTHER -> {}
PolicyRules(nr, whitepath) ==
    CASE nr = "open" ->
           {{Cond(1, "Dword", "MaskedEq", O_RDWR, Qword(0, O_RDWR))},
            {Cond(1, "Dword", "MaskedEq", O_WRONLY, Qword(0, O_WRONLY))}}
      [] nr = "openat" ->
           {{Cond(2, "Dword", "MaskedEq", O_RDWR, Qword(0, O_RDWR))},
            {Cond(2, "Dword", "MaskedEq", O_WRONLY, Qword(0, O_WRONLY))}}
      [] nr = "execve" -> {{Cond(0, "Qword", "Ne", 0, whitepath)}}
      [] OTHER -> {}

\* the two actions given to SeccompFilter::new
MismatchAction == "Allow"
MatchAction_Kill == "KillProcess"
MatchAction == "Errno(EPERM)"

\* a call matches when it is named and it has no rule or one of its rules
\* holds in all its conditions
SyscallMatches(nr, args, whitepath) ==
    /\ nr \in PolicySyscalls
    /\ LET rules == PolicyRules(nr, whitepath)
       IN  rules = {} \/ \E r \in rules : \A c \in r : CondHolds(c, args)

\* what the kernel does with a call of a process: nothing is filtered
\* before the filter is applied
FilterAction(installed, nr, args, whitepath) ==
    IF installed /\ SyscallMatches(nr, args, whitepath) THEN MatchAction ELSE MismatchAction

\* the order of the child's steps between fork and the subject's first
\* instruction
ChildStepAfter_FilterFirst(step) ==
    CASE step = "fork" -> "redirect_stdin"
      [] step = "redirect_stdin" -> "install_seccomp"
      [] step = "install_seccomp" -> "redirect_stdout"
      [] step = "redirect_stdout" -> "execv"
      [] step = "execv" -> "subject"
ChildStepAfter(step) ==
    CASE step = "fork" -> "redirect_stdin"
      [] step = "redirect_stdin" -> "redirect_stdout"
      [] step = "redirect_stdout" -> "install_seccomp"
      [] step = "install_seccomp" -> "execv"
      [] step = "execv" -> "subject"

Alive(c) ==
    c \in {"redirect_stdin", "redirect_stdout", "install_seccomp", "execv", "subject"}

(***************************************************************************)
(* Inputs of the model.                                                    *)
(***************************************************************************)
SeqsUpTo(S, n) == UNION {[1..k -> S] : k \in 0..n}

\* 'a', 'A'
SessionBytes == {97, 65}
\* 'A', 'a', 'b', ' ', vertical tab
CmpBytes == {65, 97, 98, 32, 11}

TimeLimits == {1, DurationMAX}
MemoryLimits == {2048}
\* peak RSS values, KiB
RssValues == {2, 3}

NoDeath == [by |-> "none", n |-> 0, core |-> FALSE]
ByExit(code) == [by |-> "exit", n |-> code, core |-> FALSE]
BySignal(sig, core) == [by |-> "signal", n |-> sig, core |-> core]

\* the ways a subject can terminate
SubjectDeaths ==
    {ByExit(0), ByExit(42)}
    \cup {BySignal(SIGFPE, FALSE), BySignal(SIGSEGV, FALSE), BySignal(SIGSEGV, TRUE)}
    \cup {BySignal(SIGTERM, FALSE), BySignal(SIGKILL, FALSE)}

\* struct timeval of ru_utime
Timeval(sec, usec) == [tv_sec |-> sec, tv_usec |-> usec]
NoTime == Timeval(0, 0)
\* the user CPU times a child can have used when it terminates: 1.5 ms
\* and 1.5 s
UserTimes == {Timeval(0, 1500), Timeval(1, 500000)}

\* judger.rs:187
CpuTimeMs(ru_utime) == ru_utime.tv_usec \div 1000

\* the raw wait status the kernel reports for a termination
RawStatus(d) ==
    IF d.by = "exit" THEN ExitStatus(d.n) ELSE SignalStatus(d.n, d.core)

\* no system call of the subject seen so far
NoSyscall == [nr |-> "none", args |-> <<>>, action |-> "none"]

NoResult ==
    [status |-> NoStatus, time_used |-> 0, cpu_time_ms |-> 0, memory_used_bytes |-> 0]

InitCommon ==
    /\ res_utime = NoTime
    /\ child_utime = NoTime
    /\ kill_called = FALSE
    /\ error = "none"
    /\ child = "none"
    /\ now = 0
    /\ begin_instant = 0
    /\ stop_instant = 0
    /\ return_value = 0
    /\ res_used = 0
    /\ ret = "pending"
    /\ result = NoResult
    /\ child_status = 0
    /\ child_maxrss = 0
    /\ sig_pending = FALSE
    /\ kill_sent = FALSE
    /\ seccomp_installed = FALSE
    /\ fd1 = "inherited"
    /\ fd0 = "inherited"
    /\ out_open_denied = FALSE
    /\ fork_at = 0
    /\ exit_at = 0
    /\ death = NoDeath
    /\ subject_ran = FALSE
    /\ sys_call = NoSyscall
    /\ launcher_exec = "none"
    /\ comparator_ran = FALSE

Init ==
    /\ InitCommon
    /\ pc = "prepare"
    /\ max_allowed_time \in TimeLimits
    /\ max_allowed_memory_bytes \in MemoryLimits
    /\ std_ans \in SeqsUpTo(SessionBytes, MaxOut)
    /\ tmp_out_exists \in BOOLEAN
    /\ tmp_out_dir \in (IF tmp_out_exists THEN {"no", "empty", "nonempty"} ELSE {"no"})
    /\ tmp_out = IF tmp_out_exists /\ tmp_out_dir = "no" THEN <<97>> ELSE <<>>
    /\ subject_loops \in BOOLEAN
    /\ content1 = <<>>
    /\ content2 = <<>>

(***************************************************************************)
(* The parent: run_judge and sandbox_run.                                  *)
(***************************************************************************)
\* fs::remove_dir fails on a directory that is not empty
RemoveDirFails_Never(dir) == FALSE
RemoveDirFails(dir) == dir = "nonempty"

\* judger.rs:143-150: remove what is at tmp_out (remove_dir for a directory,
\* remove_file otherwise), then File::create; a failed removal returns
\* through `?`
PrepareTmpOut ==
    /\ pc = "prepare"
    /\ IF tmp_out_exists /\ tmp_out_dir # "no" /\ RemoveDirFails(tmp_out_dir)
       THEN /\ ret' = "Err"
            /\ error' = "remove_dir"
            /\ pc' = "done"
            /\ UNCHANGED <<tmp_out_exists, tmp_out_dir, tmp_out>>
       ELSE /\ tmp_out_exists' = TRUE
            /\ tmp_out_dir' = "no"
            /\ tmp_out' = <<>>
            /\ pc' = "sandbox_run"
            /\ UNCHANGED <<ret, error>>
    /\ UNCHANGED <<child, now, begin_instant, stop_instant, return_value, res_used,
                   res_utime, max_allowed_time, max_allowed_memory_bytes, std_ans,
                   result, child_status, child_maxrss, child_utime, sig_pending,
                   kill_sent, kill_called, seccomp_installed, fd1, fd0,
                   out_open_denied, subject_loops, subject_ran, sys_call,
                   launcher_exec, fork_at, exit_at, death, comparator_ran, content1,
                   content2>>

\* secrun.rs:114-126: the output file is ensured to exist, the strings are
\* converted, and the start instant is taken
SandboxRunInstant ==
    /\ pc = "sandbox_run"
    /\ tmp_out_exists' = TRUE
    /\ tmp_out' = IF tmp_out_exists THEN tmp_out ELSE <<>>
    /\ begin_instant' = now
    /\ pc' = "fork"
    /\ UNCHANGED <<child, now, stop_instant, return_value, res_used,
                   max_allowed_time, max_allowed_memory_bytes, std_ans, ret, result,
                   child_status, child_maxrss, sig_pending, kill_sent,
                   seccomp_installed, fd1, fd0, out_open_denied, subject_loops, tmp_out_dir, res_utime, child_utime, kill_called, error, sys_call, launcher_exec, subject_ran,
                   fork_at, exit_at, death, comparator_ran, content1, content2>>

\* secrun.rs:127, 143: fork succeeded; the parent returns (pid, inst)
Fork ==
    /\ pc = "fork"
    /\ child = "none"
    /\ child' = ChildStepAfter("fork")
    /\ fork_at' = now
    /\ pc' = "wait4"
    /\ UNCHANGED <<now, begin_instant, stop_instant, return_value, res_used,
                   max_allowed_time, max_allowed_memory_bytes, std_ans,
                   tmp_out_exists, tmp_out, ret, result, child_status, child_maxrss,
                   sig_pending, kill_sent, seccomp_installed, fd1, fd0,
                   out_open_denied, subject_loops, tmp_out_dir, res_utime, child_utime, kill_called, error, sys_call, launcher_exec, subject_ran, exit_at, death, comparator_ran,
                   content1, content2>>

\* judger.rs:166-168: one non-blocking poll
Wait4 ==
    /\ pc = "wait4"
    /\ IF Wait4Reaps(child)
       THEN /\ return_value' = child_status
            /\ res_used' = child_maxrss
            /\ res_utime' = child_utime
            /\ child' = IF child = "zombie" THEN "reaped" ELSE child
            /\ pc' = "stop"
       ELSE /\ pc' = "check"
            /\ UNCHANGED <<return_value, res_used, res_utime, child>>
    /\ kill_called' = FALSE
    /\ UNCHANGED <<now, begin_instant, stop_instant, max_allowed_time,
                   max_allowed_memory_bytes, std_ans, tmp_out_exists, tmp_out, ret,
                   result, child_status, child_maxrss, sig_pending, kill_sent,
                   seccomp_installed, fd1, fd0, out_open_denied, subject_loops, tmp_out_dir, child_utime, error, sys_call, launcher_exec, subject_ran,
                   fork_at, exit_at, death, comparator_ran, content1, content2>>

\* judger.rs:171-173: the stop instant, then break
StopInstant ==
    /\ pc = "stop"
    /\ stop_instant' = now
    /\ pc' = "classify"
    /\ UNCHANGED <<child, now, begin_instant, return_value, res_used,
                   max_allowed_time, max_allowed_memory_bytes, std_ans,
                   tmp_out_exists, tmp_out, ret, result, child_status, child_maxrss,
                   sig_pending, kill_sent, seccomp_installed, fd1, fd0,
                   out_open_denied, subject_loops, tmp_out_dir, res_utime, child_utime, kill_called, error, sys_call, launcher_exec, subject_ran, fork_at, exit_at, death,
                   comparator_ran, content1, content2>>

\* judger.rs:175-180: not reaped: kill past the deadline, else sleep; in
\* both cases the loop goes on
CheckDeadline ==
    /\ pc = "check"
    /\ LET duration == SaturatingDurationSince(now, begin_instant)
       IN  IF DeadlinePassed(duration, max_allowed_time)
           THEN /\ kill_sent' = TRUE
                /\ kill_called' = TRUE
                /\ sig_pending' = (sig_pending \/ Alive(child))
           ELSE /\ kill_called' = FALSE
                /\ UNCHANGED <<kill_sent, sig_pending>>
    /\ pc' = "wait4"
    /\ UNCHANGED <<child, now, begin_instant, stop_instant, return_value, res_used,
                   max_allowed_time, max_allowed_memory_bytes, std_ans,
                   tmp_out_exists, tmp_out, ret, result, child_status, child_maxrss,
                   seccomp_installed, fd1, fd0, out_open_denied, subject_loops, tmp_out_dir, res_utime, child_utime, error, sys_call, launcher_exec, subject_ran,
                   fork_at, exit_at, death, comparator_ran, content1, content2>>

\* judger.rs:185-211: the measurements, the verdict, the JudgeResult
ClassifyAndReturn ==
    /\ pc = "classify"
    /\ LET duration == SaturatingDurationSince(stop_instant, begin_instant)
           memory_used_bytes == res_used * 1024
           cpu_time_ms == CpuTimeMs(res_utime)
           verdict == Classify(memory_used_bytes, duration, return_value,
                               max_allowed_memory_bytes, max_allowed_time)
       IN  IF verdict = RunComparator
           THEN IF tmp_out_exists
                THEN /\ content1' = std_ans
                     /\ content2' = tmp_out
                     /\ comparator_ran' = TRUE
                     /\ result' = [status |-> compare_content(std_ans, tmp_out),
                                   time_used |-> duration,
                                   cpu_time_ms |-> cpu_time_ms,
                                   memory_used_bytes |-> memory_used_bytes]
                     /\ tmp_out_exists' = TmpOutAfterClassify(verdict, tmp_out_exists)
                     /\ ret' = "Ok"
                     /\ UNCHANGED error
                ELSE /\ ret' = "Err"
                     /\ error' = "open"
                     /\ UNCHANGED <<content1, content2, comparator_ran, result,
                                    tmp_out_exists>>
           ELSE /\ result' = [status |-> verdict,
                              time_used |-> duration,
                              cpu_time_ms |-> cpu_time_ms,
                              memory_used_bytes |-> memory_used_bytes]
                /\ tmp_out_exists' = TmpOutAfterClassify(verdict, tmp_out_exists)
                /\ ret' = "Ok"
                /\ UNCHANGED <<content1, content2, comparator_ran, error>>
    /\ pc' = "done"
    /\ UNCHANGED <<child, now, begin_instant, stop_instant, return_value, res_used,
                   max_allowed_time, max_allowed_memory_bytes, std_ans, tmp_out,
                   child_status, child_maxrss, sig_pending, kill_sent,
                   seccomp_installed, fd1, fd0, out_open_denied, subject_loops, tmp_out_dir, res_utime, child_utime, kill_called, sys_call, launcher_exec, subject_ran,
                   fork_at, exit_at, death>>

(***************************************************************************)
(* The child: the launcher's steps, then the subject.                      *)
(***************************************************************************)
\* the child process ends: it becomes a zombie holding its status and usage
Terminate(d, rss) ==
    /\ child' = "zombie"
    /\ child_status' = RawStatus(d)
    /\ child_maxrss' = rss
    /\ child_utime' \in UserTimes
    /\ death' = d
    /\ exit_at' = now
    /\ sig_pending' = FALSE

\* secrun.rs:131-134
ChildRedirectStdin ==
    /\ child = "redirect_stdin"
    /\ fd0' = "input_file"
    /\ child' = ChildStepAfter("redirect_stdin")
    /\ UNCHANGED <<pc, now, begin_instant, stop_instant, return_value, res_used,
                   max_allowed_time, max_allowed_memory_bytes, std_ans,
                   tmp_out_exists, tmp_out, ret, result, child_status, child_maxrss,
                   sig_pending, kill_sent, seccomp_installed, fd1, out_open_denied,
                   subject_loops, tmp_out_dir, res_utime, child_utime, kill_called, error, sys_call, launcher_exec, subject_ran, fork_at, exit_at, death, comparator_ran,
                   content1, content2>>

\* secrun.rs:135-138: open(outf, O_WRONLY); close(1); dup2(fd, 1); close(fd)
ChildRedirectStdout ==
    /\ child = "redirect_stdout"
    /\ LET denied == OpenDenied(seccomp_installed, O_WRONLY)
       IN  /\ out_open_denied' = denied
           /\ fd1' = IF denied \/ ~tmp_out_exists THEN "closed" ELSE "tmp_out"
    /\ child' = ChildStepAfter("redirect_stdout")
    /\ UNCHANGED <<pc, now, begin_instant, stop_instant, return_value, res_used,
                   max_allowed_time, max_allowed_memory_bytes, std_ans,
                   tmp_out_exists, tmp_out, ret, result, child_status, child_maxrss,
                   sig_pending, kill_sent, seccomp_installed, fd0, subject_loops, tmp_out_dir, res_utime, child_utime, kill_called, error, sys_call, launcher_exec, subject_ran,
                   fork_at, exit_at, death, comparator_ran, content1, content2>>

\* secrun.rs:140: install_seccomp(..).unwrap(): the filter is active
ChildInstallSeccomp ==
    /\ child = "install_seccomp"
    /\ seccomp_installed' = TRUE
    /\ child' = ChildStepAfter("install_seccomp")
    /\ UNCHANGED <<pc, now, begin_instant, stop_instant, return_value, res_used,
                   max_allowed_time, max_allowed_memory_bytes, std_ans,
                   tmp_out_exists, tmp_out, ret, result, child_status, child_maxrss,
                   sig_pending, kill_sent, fd1, fd0, out_open_denied, subject_loops, tmp_out_dir, res_utime, child_utime, kill_called, error, sys_call, launcher_exec, subject_ran,
                   fork_at, exit_at, death, comparator_ran, content1, content2>>

\* the filter's action on the execve the launcher issues at secrun.rs:93
LauncherExecAction ==
    FilterAction(seccomp_installed, "execve", <<ExecvPath, Qword(0, 0), Qword(0, 0)>>,
                 execve_whitepath)

\* secrun.rs:141, 93: execv succeeded: the subject's image runs
ChildExecv ==
    /\ child = "execv"
    /\ LauncherExecAction = "Allow"
    /\ launcher_exec' = LauncherExecAction
    /\ child' = ChildStepAfter("execv")
    /\ subject_ran' = TRUE
    /\ UNCHANGED <<pc, now, begin_instant, stop_instant, return_value, res_used,
                   max_allowed_time, max_allowed_memory_bytes, std_ans,
                   tmp_out_exists, tmp_out, ret, result, child_status, child_maxrss,
                   sig_pending, kill_sent, seccomp_installed, fd1, fd0,
                   out_open_denied, subject_loops, tmp_out_dir, res_utime, child_utime, kill_called, error, sys_call, fork_at, exit_at, death,
                   comparator_ran, content1, content2>>

\* secrun.rs:140 (unwrap on Err) and secrun.rs:95-96 (execv returned, the
\* filter's errno or any other failure): the child panics and exits with
\* the panic exit code
ChildPanic ==
    /\ child \in {"install_seccomp", "execv"}
    /\ launcher_exec' = IF child = "execv" THEN LauncherExecAction ELSE launcher_exec
    /\ \E rss \in RssValues : Terminate(ByExit(PanicExitCode), rss)
    /\ UNCHANGED <<pc, now, begin_instant, stop_instant, return_value, res_used,
                   max_allowed_time, max_allowed_memory_bytes, std_ans,
                   tmp_out_exists, tmp_out, ret, result, kill_sent,
                   seccomp_installed, fd1, fd0, out_open_denied, subject_loops, tmp_out_dir, res_utime, kill_called, error, sys_call,
                   subject_ran, fork_at, comparator_ran, content1, content2>>

\* the subject writes one byte to descriptor 1
SubjectWrite ==
    /\ child = "subject"
    /\ fd1 = "tmp_out"
    /\ Len(tmp_out) < MaxOut
    /\ \E b \in SessionBytes : tmp_out' = Append(tmp_out, b)
    /\ UNCHANGED <<pc, child, now, begin_instant, stop_instant, return_value,
                   res_used, max_allowed_time, max_allowed_memory_bytes, std_ans,
                   tmp_out_exists, ret, result, child_status, child_maxrss,
                   sig_pending, kill_sent, seccomp_installed, fd1, fd0,
                   out_open_denied, subject_loops, tmp_out_dir, res_utime, child_utime, kill_called, error, sys_call, launcher_exec, subject_ran, fork_at, exit_at, death,
                   comparator_ran, content1, content2>>

\* the subject terminates on its own: exit, or a fatal signal
SubjectTerminate ==
    /\ child = "subject"
    /\ ~subject_loops
    /\ \E d \in SubjectDeaths, rss \in RssValues : Terminate(d, rss)
    /\ UNCHANGED <<pc, now, begin_instant, stop_instant, return_value, res_used,
                   max_allowed_time, max_allowed_memory_bytes, std_ans,
                   tmp_out_exists, tmp_out, ret, result, kill_sent,
                   seccomp_installed, fd1, fd0, out_open_denied, subject_loops, tmp_out_dir, res_utime, kill_called, error, sys_call, launcher_exec, subject_ran,
                   fork_at, comparator_ran, content1, content2>>

\* judger.rs:177: the supervisor's SIGKILL reaches the living child
KillDelivered ==
    /\ sig_pending
    /\ Alive(child)
    /\ \E rss \in RssValues : Terminate(BySignal(SIGKILL, FALSE), rss)
    /\ UNCHANGED <<pc, now, begin_instant, stop_instant, return_value, res_used,
                   max_allowed_time, max_allowed_memory_bytes, std_ans,
                   tmp_out_exists, tmp_out, ret, result, kill_sent,
                   seccomp_installed, fd1, fd0, out_open_denied, subject_loops, tmp_out_dir, res_utime, kill_called, error, sys_call, launcher_exec, subject_ran,
                   fork_at, comparator_ran, content1, content2>>

\* the monotonic clock advances while the session measures time
Tick ==
    /\ pc \in {"fork", "wait4", "check", "stop"}
    /\ now < MaxTime
    /\ now' = now + 1
    /\ UNCHANGED <<pc, child, begin_instant, stop_instant, return_value, res_used,
                   max_allowed_time, max_allowed_memory_bytes, std_ans,
                   tmp_out_exists, tmp_out, ret, result, child_status, child_maxrss,
                   sig_pending, kill_sent, seccomp_installed, fd1, fd0,
                   out_open_denied, subject_loops, tmp_out_dir, res_utime, child_utime, kill_called, error, sys_call, launcher_exec, subject_ran, fork_at, exit_at, death,
                   comparator_ran, content1, content2>>

Next ==
    \/ PrepareTmpOut
    \/ SandboxRunInstant
    \/ Fork
    \/ Wait4
    \/ StopInstant
    \/ CheckDeadline
    \/ ClassifyAndReturn
    \/ ChildRedirectStdin
    \/ ChildRedirectStdout
    \/ ChildInstallSeccomp
    \/ ChildExecv
    \/ ChildPanic
    \/ SubjectWrite
    \/ SubjectTerminate
    \/ KillDelivered
    \/ Tick

Spec == Init /\ [][Next]_vars

(***************************************************************************)
(* The session under fair scheduling: the parent keeps running, the clock  *)
(* advances, the child's launcher steps are taken and a sent signal is     *)
(* delivered.                                                              *)
(***************************************************************************)
ParentStep ==
    \/ PrepareTmpOut
    \/ SandboxRunInstant
    \/ Fork
    \/ Wait4
    \/ StopInstant
    \/ CheckDeadline
    \/ ClassifyAndReturn

LauncherStep ==
    \/ ChildRedirectStdin
    \/ ChildRedirectStdout
    \/ ChildInstallSeccomp
    \/ ChildExecv

FairSpec ==
    /\ Spec
    /\ WF_vars(ParentStep)
    /\ WF_vars(LauncherStep)
    /\ WF_vars(KillDelivered)
    /\ WF_vars(Tick)

(***************************************************************************)
(* The session with failing operations of the parent: a `?` that takes     *)
(* the error path.                                                         *)
(***************************************************************************)
\* run_judge returns Err(e) through a `?`
ReturnErr(e) ==
    /\ ret' = "Err"
    /\ error' = e
    /\ pc' = "done"
    /\ UNCHANGED <<child, now, begin_instant, stop_instant, return_value, res_used,
                   max_allowed_time, max_allowed_memory_bytes, std_ans,
                   tmp_out_exists, tmp_out, result, child_status, child_maxrss,
                   sig_pending, kill_sent, seccomp_installed, fd1, fd0,
                   out_open_denied, subject_loops, tmp_out_dir, res_utime, child_utime, kill_called, subject_ran, sys_call,
                   launcher_exec, fork_at, exit_at, death, comparator_ran, content1,
                   content2>>

\* judger.rs:150: File::create of the scratch file fails
PrepareFails ==
    /\ pc = "prepare"
    /\ ReturnErr("create")

\* secrun.rs:114-125: File::create fails, or a string holds a NUL byte
SandboxRunFails ==
    /\ pc = "sandbox_run"
    /\ \E e \in {"create", "NulError"} : ReturnErr(e)

\* secrun.rs:101-104, 127: fork returns a negative pid
ForkFails ==
    /\ pc = "fork"
    /\ child = "none"
    /\ ReturnErr("fork")

\* judger.rs:204-205: File::open of the reference or of the captured
\* output fails
OpenFails ==
    /\ pc = "classify"
    /\ Classify(res_used * 1024, SaturatingDurationSince(stop_instant, begin_instant),
                return_value, max_allowed_memory_bytes, max_allowed_time) = RunComparator
    /\ ReturnErr("open")

FaultNext ==
    \/ Next
    \/ PrepareFails
    \/ SandboxRunFails
    \/ ForkFails
    \/ OpenFails

FaultSpec == Init /\ [][FaultNext]_vars

(***************************************************************************)
(* compare_content alone, applied to two byte sequences.                   *)
(***************************************************************************)
CmpInit ==
    /\ InitCommon
    /\ pc = "compare_content"
    /\ content1 \in SeqsUpTo(CmpBytes, MaxLen)
    /\ content2 \in SeqsUpTo(CmpBytes, MaxLen)
    /\ max_allowed_time = DurationMAX
    /\ max_allowed_memory_bytes \in MemoryLimits
    /\ std_ans = <<>>
    /\ tmp_out_exists = FALSE
    /\ tmp_out_dir = "no"
    /\ tmp_out = <<>>
    /\ subject_loops = FALSE

\* judger.rs:215-241
CompareContent ==
    /\ pc = "compare_content"
    /\ result' = [result EXCEPT !.status = compare_content(content1, content2)]
    /\ comparator_ran' = TRUE
    /\ pc' = "compared"
    /\ UNCHANGED <<child, now, begin_instant, stop_instant, return_value, res_used,
                   max_allowed_time, max_allowed_memory_bytes, std_ans,
                   tmp_out_exists, tmp_out, ret, child_status, child_maxrss,
                   sig_pending, kill_sent, seccomp_installed, fd1, fd0,
                   out_open_denied, subject_loops, tmp_out_dir, res_utime, child_utime, kill_called, error, sys_call, launcher_exec, subject_ran, fork_at, exit_at, death,
                   content1, content2>>

CmpNext == CompareContent

CmpSpec == CmpInit /\ [][CmpNext]_vars

(***************************************************************************)
(* compare_content on streams whose reads can fail: an item of a stream is *)
(* a byte or a failed read.                                                *)
(***************************************************************************)
\* NUL, 'a', and a failed read
IoItems == {0, 97, ReadErr}

IoInit ==
    /\ InitCommon
    /\ pc = "compare_content"
    /\ content1 \in SeqsUpTo(IoItems, MaxLen)
    /\ content2 \in SeqsUpTo(IoItems, MaxLen)
    /\ max_allowed_time = DurationMAX
    /\ max_allowed_memory_bytes \in MemoryLimits
    /\ std_ans = <<>>
    /\ tmp_out_exists = FALSE
    /\ tmp_out_dir = "no"
    /\ tmp_out = <<>>
    /\ subject_loops = FALSE

IoNext == CompareContent

IoSpec == IoInit /\ [][IoNext]_vars

(***************************************************************************)
(* The child under the installed filter: the launcher's exec, then the     *)
(* subject issuing system calls, with the parent polling beside it.        *)
(***************************************************************************)
\* the system calls a subject may issue: the named ones and some others
Syscalls == PolicySyscalls \cup {"read", "clone3"}

\* argument registers: flag words with and without further flag bits
\* (O_CREAT is 64) and with a dirty upper half, and pointers
ArgWords == {Qword(0, l) : l \in {0, 1, 2, 64, 66}} \cup {Qword(1, 0)}
ArgPointers == {full_name_c, Qword(0, 64), Qword(1, 66)}
SyscallArgs == {<<a0, a1, a2>> : a0 \in ArgPointers, a1 \in ArgWords, a2 \in ArgWords}

\* the subject issues one system call; the kernel applies the filter
SubjectSyscall ==
    /\ child = "subject"
    /\ \E nr \in Syscalls, args \in SyscallArgs :
         LET action == FilterAction(seccomp_installed, nr, args, execve_whitepath)
         IN  /\ sys_call' = [nr |-> nr, args |-> args, action |-> action]
             /\ IF action = "KillProcess"
                THEN \E rss \in RssValues : Terminate(BySignal(31, TRUE), rss)
                ELSE UNCHANGED <<child, child_status, child_maxrss, child_utime, death,
                                 exit_at, sig_pending>>
    /\ UNCHANGED <<pc, now, begin_instant, stop_instant, return_value, res_used,
                   max_allowed_time, max_allowed_memory_bytes, std_ans,
                   tmp_out_exists, tmp_out, ret, result, kill_sent,
                   seccomp_installed, fd1, fd0, out_open_denied, subject_loops, tmp_out_dir, res_utime, kill_called, error,
                   launcher_exec, subject_ran, fork_at, comparator_ran, content1,
                   content2>>

\* the session at the moment the child has applied the filter
PolicyInit ==
    /\ tmp_out_dir = "no"
    /\ res_utime = NoTime
    /\ child_utime = NoTime
    /\ kill_called = FALSE
    /\ error = "none"
    /\ pc = "wait4"
    /\ child = "execv"
    /\ now = 0
    /\ begin_instant = 0
    /\ stop_instant = 0
    /\ return_value = 0
    /\ res_used = 0
    /\ max_allowed_time = DurationMAX
    /\ max_allowed_memory_bytes \in MemoryLimits
    /\ std_ans = <<>>
    /\ tmp_out_exists = TRUE
    /\ tmp_out = <<>>
    /\ ret = "pending"
    /\ result = NoResult
    /\ child_status = 0
    /\ child_maxrss = 0
    /\ sig_pending = FALSE
    /\ kill_sent = FALSE
    /\ seccomp_installed = TRUE
    /\ fd1 = "tmp_out"
    /\ fd0 = "input_file"
    /\ out_open_denied = FALSE
    /\ subject_loops = FALSE
    /\ subject_ran = FALSE
    /\ sys_call = NoSyscall
    /\ launcher_exec = "none"
    /\ fork_at = 0
    /\ exit_at = 0
    /\ death = NoDeath
    /\ comparator_ran = FALSE
    /\ content1 = <<>>
    /\ content2 = <<>>

PolicyNext ==
    \/ ChildExecv
    \/ ChildPanic
    \/ SubjectSyscall
    \/ SubjectTerminate
    \/ Wait4
    \/ CheckDeadline
    \/ StopInstant
    \/ ClassifyAndReturn

PolicySpec == PolicyInit /\ [][PolicyNext]_vars

(***************************************************************************)
(* Vocabulary of the properties.                                           *)
(***************************************************************************)
Returned == ret = "Ok"
MemoryBytes == child_maxrss * 1024
MemoryOver == MemoryBytes > max_allowed_memory_bytes
TimeOver == result.time_used > max_allowed_time
ComparisonTags == {"Accepted", "PresentationError", "WrongAnswer"}
OtherTags == {"MemoryLimitExceeded", "TimeLimitExceeded", "RuntimeError", "ReturnNonZero"}

\* C1: whenever the reaped child's memory_bytes is strictly greater than the
\* memory limit, the verdict is MemoryLimitExceeded, whatever the wall time,
\* the raw status and the captured output are.
C1_MemoryDominates ==
    (Returned /\ MemoryOver) => result.status = MemoryLimitExceeded

\* C1 witness: memory over the limit together with time over the limit and a
\* death by signal, and a verdict returned.
C1_Witness ==
    /\ Returned
    /\ MemoryOver
    /\ TimeOver
    /\ death = BySignal(SIGSEGV, TRUE)
    /\ result.status = MemoryLimitExceeded

\* C2: whenever memory is within its limit and wall_time is strictly greater
\* than the time limit, the verdict is TimeLimitExceeded, whatever the raw
\* status and the captured output are.
C2_TimeDominates ==
    (Returned /\ ~MemoryOver /\ TimeOver) => result.status = TimeLimitExceeded

\* C2 witness: time over the limit, memory within, the child dead of SIGSEGV.
C2_Witness ==
    /\ Returned
    /\ ~MemoryOver
    /\ TimeOver
    /\ death = BySignal(SIGSEGV, FALSE)
    /\ tmp_out # <<>>
    /\ result.status = TimeLimitExceeded

\* C3: within both limits and with a non-zero raw status: death by SIGFPE
\* gives RuntimeError(FloatingPointError), by SIGSEGV
\* RuntimeError(SegmentationFault), by any other signal ReturnNonZero(raw),
\* a normal exit with non-zero code c gives ReturnNonZero(raw) with raw the
\* undecoded status that decodes to c; the comparator is not run.
C3_NonZeroStatus ==
    (Returned /\ ~MemoryOver /\ ~TimeOver /\ return_value # 0) =>
        /\ return_value = child_status
        /\ (death.by = "signal" /\ death.n = SIGFPE) =>
               result.status = RuntimeError("FloatingPointError")
        /\ (death.by = "signal" /\ death.n = SIGSEGV) =>
               result.status = RuntimeError("SegmentationFault")
        /\ (death.by = "signal" /\ death.n \notin {SIGFPE, SIGSEGV}) =>
               result.status = ReturnNonZero(return_value)
        /\ death.by = "exit" =>
               /\ result.status = ReturnNonZero(return_value)
               /\ WIFEXITED(return_value)
               /\ WEXITSTATUS(return_value) = death.n
               /\ death.n # 0
        /\ ~comparator_ran

\* C3 witness: a subject that exited with code 42 within the limits.
C3_Witness ==
    /\ Returned
    /\ ~MemoryOver
    /\ ~TimeOver
    /\ death = ByExit(42)
    /\ result.status = ReturnNonZero(10752)

\* C4: the verdict is Accepted exactly when the subject exited with raw
\* status 0, memory and wall time are within their limits and the captured
\* output is byte-identical to the reference.
C4_AcceptedIff ==
    Returned =>
        (result.status = Accepted <=>
            /\ return_value = 0
            /\ ~MemoryOver
            /\ ~TimeOver
            /\ tmp_out = std_ans)

\* C4 witness: an accepted run with a non-empty output.
C4_Witness ==
    /\ Returned
    /\ result.status = Accepted
    /\ tmp_out # <<>>
    /\ death = ByExit(0)

(***************************************************************************)
(* Vocabulary of the comparator's properties, stated on byte sequences.    *)
(***************************************************************************)
\* ASCII whitespace: space, tab, line feed, form feed, carriage return
AsciiWhitespace == {32, 9, 10, 12, 13}
\* the six bytes the specification lists: the five above and vertical tab
ListedWhitespace == {32, 9, 10, 13, 11, 12}

\* y is x, or x with its ASCII letter case changed
CaseVariant(x, y) ==
    \/ x = y
    \/ x \in 65..90 /\ y = x + 32
    \/ x \in 97..122 /\ y = x - 32

\* t is s with bytes of WS inserted and ASCII letter case changed
RECURSIVE ObtainedBy(_, _, _)
ObtainedBy(WS, s, t) ==
    IF t = <<>> THEN s = <<>>
    ELSE \/ s # <<>> /\ CaseVariant(Head(s), Head(t)) /\ ObtainedBy(WS, Tail(s), Tail(t))
         \/ Head(t) \in WS /\ ObtainedBy(WS, s, Tail(t))

\* s without its bytes of WS
Stripped(WS, s) == SelectSeq(s, LAMBDA x : x \notin WS)

\* s and t differ only by inserted or removed bytes of WS and by letter case
DifferOnlyBy(WS, s, t) ==
    LET a == Stripped(WS, s)
        b == Stripped(WS, t)
    IN  /\ Len(a) = Len(b)
        /\ \A i \in 1..Len(a) : CaseVariant(a[i], b[i])

\* the derived stream: bytes of WS dropped, ASCII letters upper-cased
Derived(WS, s) ==
    LET a == Stripped(WS, s)
    IN  [i \in 1..Len(a) |-> IF a[i] \in 97..122 THEN a[i] - 32 ELSE a[i]]

ProperPrefix(s, t) == Len(s) < Len(t) /\ s = SubSeq(t, 1, Len(s))

Compared == pc = "compared"

C6_AsStated ==
    Compared =>
        /\ (content1 # content2 /\ DifferOnlyBy(ListedWhitespace, content1, content2)) =>
               result.status = PresentationError
        /\ Derived(ListedWhitespace, content1) # Derived(ListedWhitespace, content2) =>
               result.status = WrongAnswer

\* C6 amended: the forgiving pass drops the five bytes space, tab, line feed,
\* form feed, carriage return (vertical tab is kept) and upper-cases ASCII
\* letters; sequences that are not identical but differ only by those five
\* bytes and by letter case give PresentationError, and sequences whose
\* derived streams differ give WrongAnswer.
C6_Amended ==
    Compared =>
        /\ Processed(content1) = Derived(AsciiWhitespace, content1)
        /\ Processed(content2) = Derived(AsciiWhitespace, content2)
        /\ (content1 # content2 /\ DifferOnlyBy(AsciiWhitespace, content1, content2)) =>
               result.status = PresentationError
        /\ Derived(AsciiWhitespace, content1) # Derived(AsciiWhitespace, content2) =>
               result.status = WrongAnswer

\* C6 witness: two sequences that differ by a removed space and by letter
\* case, compared as PresentationError.
C6_Witness ==
    /\ Compared
    /\ content1 = <<32, 97, 98>>
    /\ content2 = <<65, 98>>
    /\ result.status = PresentationError

(***************************************************************************)
(* Properties of the session's order of events.                            *)
(***************************************************************************)
Forked == child # "none"
FiniteLimit == max_allowed_time # DurationMAX

\* C7: the start instant is captured before the fork, the child terminates
\* before the poll reaps it, the stop instant is captured after the reap, and
\* the JudgeResult is constructed after that: no result exists while the
\* child is alive or unreaped, and wall_time = stop_instant - begin_instant
\* (never negative) spans the child's whole lifetime.
C7_EventOrder ==
    /\ Forked => (pc \in {"wait4", "check", "stop", "classify", "done"}
                  /\ begin_instant <= fork_at)
    /\ child \in {"zombie", "reaped"} => (fork_at <= exit_at /\ death # NoDeath)
    /\ (pc \in {"stop", "classify"} \/ Returned) =>
           (child = "reaped" /\ return_value = child_status /\ res_used = child_maxrss)
    /\ pc \in {"classify", "done"} => exit_at <= stop_instant
    /\ ret # "pending" => pc = "done"
    /\ Returned =>
           /\ child = "reaped"
           /\ result.time_used = stop_instant - begin_instant
           /\ result.time_used >= 0
           /\ begin_instant <= fork_at
           /\ fork_at <= exit_at
           /\ exit_at <= stop_instant

\* C7 witness: a returned result whose child lived for some time after the
\* fork and was reaped some time after it terminated.
C7_Witness ==
    /\ Returned
    /\ child = "reaped"
    /\ fork_at < exit_at
    /\ exit_at < stop_instant
    /\ result.time_used = stop_instant - begin_instant

\* C8 as stated: for a finite time limit and a subject that runs and never
\* terminates on its own, the session returns with the verdict
\* TimeLimitExceeded.
C8_AsStated ==
    (Returned /\ FiniteLimit /\ subject_loops /\ subject_ran) =>
        result.status = TimeLimitExceeded

\* C8 amended: for a finite time limit the session, once it has forked the
\* child, always returns; for a
\* subject that never terminates on its own the supervisor sends SIGKILL once
\* the elapsed time exceeds the limit, stays in the wait loop on sending it,
\* returns only with the child reaped, and the verdict is TimeLimitExceeded
\* unless the child's peak memory exceeds the memory limit, in which case it
\* is MemoryLimitExceeded.
C8_Amended ==
    /\ [][(~kill_sent /\ kill_sent') =>
            (pc = "check" /\ pc' = "wait4" /\ ret' = "pending"
             /\ now - begin_instant > max_allowed_time)]_vars
    /\ []((Returned /\ FiniteLimit /\ subject_loops /\ subject_ran) =>
            /\ child = "reaped"
            /\ kill_sent
            /\ death = BySignal(SIGKILL, FALSE)
            /\ TimeOver
            /\ result.status = IF MemoryOver THEN MemoryLimitExceeded
                               ELSE TimeLimitExceeded)
    /\ (FiniteLimit /\ subject_loops /\ subject_ran) ~> kill_sent
    /\ (FiniteLimit /\ Forked) ~> (Returned /\ child = "reaped")

\* C8 witness: a looping subject, killed by the supervisor past the deadline,
\* reaped, and judged TimeLimitExceeded.
C8_Witness ==
    /\ Returned
    /\ FiniteLimit
    /\ subject_loops
    /\ kill_sent
    /\ death = BySignal(SIGKILL, FALSE)
    /\ subject_ran
    /\ child = "reaped"
    /\ result.status = TimeLimitExceeded

\* C9: the captured output file is removed before a verdict is returned
\* exactly when the classifier reached the comparison step (raw status 0,
\* memory and wall time within limits): Accepted, PresentationError and
\* WrongAnswer are returned with the file removed, the other verdicts with
\* the file in place.
C9_OutputFileRemoval ==
    Returned =>
        /\ comparator_ran <=> (return_value = 0 /\ ~MemoryOver /\ ~TimeOver)
        /\ ~tmp_out_exists <=> comparator_ran
        /\ result.status.tag \in ComparisonTags => ~tmp_out_exists
        /\ result.status.tag \in OtherTags => tmp_out_exists
        /\ result.status.tag \in ComparisonTags \cup OtherTags

\* C9 witness: a PresentationError verdict returned with the file removed.
C9_Witness ==
    /\ Returned
    /\ result.status = PresentationError
    /\ ~tmp_out_exists

\* C10: in the child, descriptor 0 is redirected, then descriptor 1, then
\* the filter is installed, then the target is exec'ed: the child's
\* write-only open of the output path happens with no filter active and is
\* not denied, and the subject never runs without the filter.
C10_ChildOrder ==
    /\ child = "redirect_stdout" => (fd0 = "input_file" /\ ~seccomp_installed)
    /\ child = "install_seccomp" =>
           (fd0 = "input_file" /\ fd1 = "tmp_out" /\ ~seccomp_installed)
    /\ child = "execv" => (fd1 = "tmp_out" /\ seccomp_installed)
    /\ child = "subject" =>
           (seccomp_installed /\ fd0 = "input_file" /\ fd1 = "tmp_out")
    /\ seccomp_installed => fd1 = "tmp_out"
    /\ subject_ran => seccomp_installed
    /\ ~out_open_denied

\* C10 witness: the subject runs under the filter and has written to the
\* redirected descriptor 1.
C10_Witness ==
    /\ child = "subject"
    /\ subject_ran
    /\ seccomp_installed
    /\ fd1 = "tmp_out"
    /\ tmp_out # <<>>

(***************************************************************************)
(* The seccomp policy (PolicySpec).                                        *)
(***************************************************************************)
EPERM == "Errno(EPERM)"
SysSeen == sys_call.nr # "none"
\* the flags word of the last call: argument 1 of open, argument 2 of openat
SysFlags ==
    IF sys_call.nr = "open" THEN sys_call.args[2].lo ELSE sys_call.args[3].lo
\* the access-mode bits of a flags word
AccessMode(flags) == flags % 4

\* C11: an open or openat is denied with EPERM exactly when its flags word
\* has the O_RDWR bit or the O_WRONLY bit set, and allowed otherwise: every
\* read-only open is allowed whatever other flag bits are set, and every
\* write-only or read-write open is denied.
C11_OpenFlags ==
    sys_call.nr \in {"open", "openat"} =>
        LET rdwr == (SysFlags \div O_RDWR) % 2 = 1
            wronly == (SysFlags \div O_WRONLY) % 2 = 1
        IN  /\ (rdwr \/ wronly) => sys_call.action = EPERM
            /\ ~(rdwr \/ wronly) => sys_call.action = "Allow"
            /\ AccessMode(SysFlags) = O_RDONLY => sys_call.action = "Allow"
            /\ AccessMode(SysFlags) \in {O_WRONLY, O_RDWR} => sys_call.action = EPERM

\* the subject was denied an openat whose flags are O_RDWR with O_CREAT,
\* its argument 1 looking like a read-only flags word
C11_Witness ==
    /\ child = "subject"
    /\ sys_call.nr = "openat"
    /\ sys_call.args[2] = Qword(0, 0)
    /\ sys_call.args[3] = Qword(0, 66)
    /\ sys_call.action = EPERM

\* C12: an execve is denied with EPERM when its first argument differs
\* from the pointer the filter was built with and allowed when it is
\* equal; the launcher's own exec passes that pointer and is allowed;
\* execveat is always denied.
C12_ExecveWhitepath ==
    /\ sys_call.nr = "execve" =>
          /\ sys_call.args[1] # execve_whitepath => sys_call.action = EPERM
          /\ sys_call.args[1] = execve_whitepath => sys_call.action = "Allow"
    /\ sys_call.nr = "execveat" => sys_call.action = EPERM
    /\ launcher_exec \in {"none", "Allow"}
    /\ subject_ran => launcher_exec = "Allow"

\* the launcher's exec was allowed, and the subject's execve of a pointer
\* with the same low half was denied
C12_Witness ==
    /\ subject_ran
    /\ launcher_exec = "Allow"
    /\ sys_call.nr = "execve"
    /\ sys_call.args[1] = Qword(0, 64)
    /\ sys_call.action = EPERM

\* the calls the policy denies whatever their arguments
Denylisted ==
    {"fork", "vfork", "clone", "execveat", "socket", "ioctl", "prctl", "mkdir",
     "rmdir", "creat", "chroot"}
NamedInPolicy == Denylisted \cup {"open", "openat", "execve"}

\* C13: a denylisted call fails with EPERM whatever its arguments and the
\* subject is not killed by the filter; a call the policy does not name is
\* allowed; the subject's own termination is classified by the usual rules.
C13_Denylist ==
    /\ [](sys_call.nr \in Denylisted => sys_call.action = EPERM)
    /\ []((SysSeen /\ sys_call.nr \notin NamedInPolicy) => sys_call.action = "Allow")
    /\ [][sys_call' # sys_call =>
            (child' = child /\ child_status' = child_status /\ death' = death)]_vars
    /\ [](death.by = "signal" => death \in SubjectDeaths)
    /\ []((Returned /\ subject_ran) =>
            /\ return_value = RawStatus(death)
            /\ death = ByExit(0) => result.status.tag \in ComparisonTags \cup {"MemoryLimitExceeded"}
            /\ death # ByExit(0) =>
                  result.status.tag \in {"RuntimeError", "ReturnNonZero", "MemoryLimitExceeded"})

\* a subject whose socket call was denied went on and exited with 42
C13_Witness ==
    /\ Returned
    /\ sys_call.nr = "socket"
    /\ sys_call.action = EPERM
    /\ death = ByExit(42)
    /\ result.status = ReturnNonZero(ExitStatus(42))

(***************************************************************************)
(* Launch failures (FaultSpec).                                            *)
(***************************************************************************)
\* the errors of the launch: string conversion, scratch-file creation, fork
LaunchErrors == {"NulError", "create", "fork"}
\* the filter could not be compiled or installed: the child panicked at
\* install_seccomp(..).unwrap()
SeccompFailed == death = ByExit(PanicExitCode) /\ ~seccomp_installed

\* C14: every cause of a launch error (string conversion, scratch-file
\* creation, fork, seccomp filter compilation or installation) is fatal to
\* the session: run_judge returns an error and produces no verdict.
C14_AsStated ==
    (pc = "done" /\ (error \in LaunchErrors \/ SeccompFailed)) =>
        (ret = "Err" /\ result.status = NoStatus)

(***************************************************************************)
(* Read failures in the comparator (IoSpec).                               *)
(***************************************************************************)
HasReadErr(c) == \E i \in DOMAIN c : c[i] = ReadErr

\* C15: an I/O error while reading the reference or the captured output
\* propagates as an error and no verdict is produced: a failed read is
\* never turned into data the comparison takes for file content.
C15_AsStated ==
    (Compared /\ (HasReadErr(content1) \/ HasReadErr(content2))) =>
        result.status = NoStatus

(***************************************************************************)
(* The deadline (Spec).                                                    *)
(***************************************************************************)
\* C16: the supervisor sends SIGKILL only in an iteration of the wait loop
\* in which the child was not reaped, the limit is not the no-limit
\* sentinel and the time since the start instant is strictly greater than
\* the limit; with the sentinel it never kills and the verdict is never
\* TimeLimitExceeded.
C16_KillOnlyPastDeadline ==
    /\ [][(kill_called' /\ ~kill_called) =>
            /\ pc = "check"
            /\ child' # "reaped"
            /\ return_value = 0
            /\ max_allowed_time # DurationMAX
            /\ now - begin_instant > max_allowed_time]_vars
    /\ [](~FiniteLimit => (~kill_called /\ ~kill_sent /\ ~sig_pending))
    /\ []((Returned /\ ~FiniteLimit) => result.status # TimeLimitExceeded)

\* the supervisor has just sent SIGKILL to a running subject, two clock
\* units after the start with a limit of one
C16_Witness ==
    /\ kill_called
    /\ pc = "wait4"
    /\ child = "subject"
    /\ max_allowed_time = 1
    /\ now - begin_instant = 2

(***************************************************************************)
(* The reported CPU time (Spec).                                           *)
(***************************************************************************)
\* the child's total user time, in microseconds
UserMicroseconds == child_utime.tv_sec * 1000000 + child_utime.tv_usec

\* C17: the reported cpu_time_ms is the child's total user time in
\* microseconds divided by 1000 (integer division), also when the child
\* used one second or more of user CPU.
C17_AsStated ==
    Returned => result.cpu_time_ms = UserMicroseconds \div 1000

(***************************************************************************)
(* The scratch output file (Spec).                                         *)
(***************************************************************************)
\* the entry at the scratch path: existence, kind, content
ScratchEntry == <<tmp_out_exists, tmp_out_dir, tmp_out>>
EmptyRegularFile == <<TRUE, "no", <<>>>>

\* C18: the parent and the child never access the scratch file at the same
\* time: the parent's removal and creation are done before the fork, only
\* the child opens and writes it between the fork and its termination, and
\* the parent opens and reads it only after it has reaped the child.
C18_NoConcurrentAccess ==
    /\ [](pc \in {"prepare", "sandbox_run", "fork"} => child = "none")
    /\ [](pc \in {"stop", "classify"} => child = "reaped")
    /\ [][ScratchEntry' # ScratchEntry =>
            \/ child = "none" /\ child' = "none" /\ pc \in {"prepare", "sandbox_run"}
            \/ /\ child = "subject"
               /\ pc \in {"wait4", "check"}
               /\ pc' = pc
               /\ tmp_out_exists' = tmp_out_exists
               /\ tmp_out_dir' = tmp_out_dir
            \/ child = "reaped" /\ pc = "classify"]_vars
    /\ [][fd1' # fd1 => (pc \in {"wait4", "check"} /\ pc' = pc)]_vars
    /\ [][comparator_ran' # comparator_ran => (child = "reaped" /\ child' = "reaped")]_vars

\* the subject wrote a byte while the parent polled, and the parent read it
\* after the reap
C18_Witness ==
    /\ child = "reaped"
    /\ comparator_ran
    /\ content2 = <<97>>
    /\ ~tmp_out_exists

\* C19: when the child is forked the scratch path holds an empty regular
\* file whatever was there before (a regular file or an empty directory is
\* removed, then the file is created empty); a directory that is not empty
\* cannot be removed: the session fails with an error and forks no child.
C19_ScratchAtFork ==
    /\ [][(child = "none" /\ child' # "none") => ScratchEntry = EmptyRegularFile]_vars
    /\ [][(pc = "prepare" /\ pc' # "prepare") =>
            IF tmp_out_exists /\ tmp_out_dir = "nonempty"
            THEN ret' = "Err" /\ pc' = "done" /\ ScratchEntry' = ScratchEntry
            ELSE ret' = "pending" /\ ScratchEntry' = EmptyRegularFile]_vars
    /\ []((tmp_out_exists /\ tmp_out_dir = "nonempty") => (child = "none" /\ ret # "Ok"))
    /\ [](ret = "Err" => (child = "none" /\ result.status = NoStatus))

\* a directory that is not empty was at the scratch path: the session has
\* failed and no child exists
C19_Witness ==
    /\ pc = "done"
    /\ ret = "Err"
    /\ error = "remove_dir"
    /\ tmp_out_dir = "nonempty"
    /\ child = "none"

(***************************************************************************)
(* Verdict of a killed session (Spec).                                     *)
(***************************************************************************)
\* C20: with a monotonic clock, a session in which the supervisor sent
\* SIGKILL at least once ends with TimeLimitExceeded or MemoryLimitExceeded,
\* also when the child terminated on its own between the decision to kill
\* and the reap.
C20_KilledIsLimitVerdict ==
    (Returned /\ kill_sent) =>
        result.status \in {TimeLimitExceeded, MemoryLimitExceeded}

\* SIGKILL was sent, the child exited with 0 on its own, the verdict is
\* TimeLimitExceeded
C20_Witness ==
    /\ Returned
    /\ kill_sent
    /\ death = ByExit(0)
    /\ result.status = TimeLimitExceeded

====
